---- MODULE Spec2Model ----
(***************************************************************************)
(* Model of doodad/launch/launch_api.py: run_command, run_commands,        *)
(* run_python and make_python_command.                                     *)
(*                                                                         *)
(* A Python str is a sequence of one-character strings, so that string     *)
(* concatenation and the os.path functions are computed character by       *)
(* character.  None is the one-element sequence <<"None">>, which is no     *)
(* Python string because "None" is not a single character.                 *)
(*                                                                         *)
(* The collaborators archive_builder (temp_archive_file, build_archive,    *)
(* _strip_stdout), mode.run_script and mount.MountLocal are imported by    *)
(* launch_api.py from other modules of the package; their behaviour is     *)
(* taken from sections 3, 5 and 6 of the specification.                    *)
(***************************************************************************)
EXTENDS Integers, Sequences, FiniteSets, TLC

VARIABLES
    entry,      \* the function the caller invoked
    call,       \* the objects the caller passed as arguments
    pyPc,       \* position inside run_python
    py,         \* locals of run_python
    deleg,      \* the arguments run_python passed on, once it has delegated
    pyRet,      \* what run_python handed back to its caller
    fn,         \* the running function among run_command / run_commands
    pc,         \* position inside fn
    p,          \* parameters of fn
    loc,        \* locals of fn
    ret,        \* what fn handed back to its caller
    live,       \* temporary archive locations that currently exist
    tmpNext,    \* number of temporary locations handed out so far, plus one
    busy,       \* TRUE while mode.run_script is executing
    builds,     \* calls of build_archive, in order
    dispatches, \* calls of mode.run_script, in order
    strips,     \* arguments of _strip_stdout, in order
    events,     \* names of the collaborator events, in order
    calls       \* the calls that have ended, in order: location used and outcome

frameVars == <<fn, pc, p, loc, ret>>
pyVars == <<pyPc, py, deleg, pyRet>>
histVars == <<builds, dispatches, strips, events>>
vars == <<entry, call, pyPc, py, deleg, pyRet, fn, pc, p, loc, ret,
          live, tmpNext, busy, builds, dispatches, strips, events, calls>>

(***************************************************************************)
(* Bounds                                                                  *)
(***************************************************************************)
MaxBatch == 3
MaxPyBatch == 2
MaxCalls == 2

(***************************************************************************)
(* Python values                                                           *)
(***************************************************************************)
None == <<"None">>

Truthy(s) == s # None /\ s # <<>>

\* the literal ' -- ' of lines 50 and 99
ArgSep == <<" ", "-", "-", " ">>

\* posixpath: the separator
Slash == "/"

RECURSIVE RFind(_, _, _)
\* str.rfind(c) + 1 restricted to s[1..n]: the 1-based index of the last c, 0 if none
RFind(s, c, n) ==
    IF n = 0 THEN 0
    ELSE IF s[n] = c THEN n
    ELSE RFind(s, c, n - 1)

RECURSIVE RStrip(_, _)
\* str.rstrip(c)
RStrip(s, c) ==
    IF s # <<>> /\ s[Len(s)] = c THEN RStrip(SubSeq(s, 1, Len(s) - 1), c) ELSE s

AllSlashes(s) == \A k \in 1..Len(s) : s[k] = Slash

\* dirname without the rstrip of the separator
DirnameKeepSlash(path) ==
    SubSeq(path, 1, RFind(path, Slash, Len(path)))

\* os.path.dirname (posixpath)
Dirname(path) ==
    LET head == SubSeq(path, 1, RFind(path, Slash, Len(path)))
    IN IF head # <<>> /\ ~AllSlashes(head) THEN RStrip(head, Slash) ELSE head

\* os.path.basename (posixpath)
Basename(path) ==
    SubSeq(path, RFind(path, Slash, Len(path)) + 1, Len(path))

\* os.path.join (posixpath) of two components
PathJoin(a, b) ==
    IF b # <<>> /\ b[1] = Slash THEN b
    ELSE IF a = <<>> \/ a[Len(a)] = Slash THEN a \o b
    ELSE a \o <<Slash>> \o b

\* make_python_command: '%s %s' % (python_cmd, target)
make_python_command(target, python_cmd) == python_cmd \o <<" ">> \o target

\* the default of make_python_command's python_cmd
PythonCmd == <<"p", "y", "t", "h", "o", "n">>

\* mount.MountLocal(local_dir=..., mount_point=...)
MountLocal(local_dir, mount_point) ==
    [local_dir |-> local_dir, mount_point |-> mount_point]

(***************************************************************************)
(* Collaborators                                                           *)
(***************************************************************************)
Digits == <<"1", "2", "3", "4", "5", "6", "7", "8", "9">>

\* the path temp_archive_file() yields for the n-th acquisition
TempPath(n) == <<"/", "t", "m", "p", "/", "d">> \o <<Digits[n]>> \o <<".", "d", "a", "r">>

\* build_archive returns the location it wrote the archive to
BuildResult(archive_filename) == archive_filename

\* the failures build_archive and mode.run_script can raise
BuildErrors == {<<"B", "u", "i", "l", "d", "E", "r", "r">>}
RunErrors == {<<"R", "u", "n", "E", "r", "r">>}

\* the marker that ends the wrapper's framing in captured output
Frame == "#"

\* what mode.run_script can capture from a run
Outputs == {<<Frame, "h", "i">>, <<Frame, Frame, "y", "o">>}

\* mode.run_script returns captured output only if return_output
BackendReturns(return_output) == IF return_output THEN Outputs ELSE {None}

\* archive_builder._strip_stdout: drops the framing up to and including the marker
StripStdout(output) ==
    LET first == CHOOSE k \in 1..(Len(output) + 1) :
                     /\ k <= Len(output) => output[k] = Frame
                     /\ \A j \in 1..(k - 1) : output[j] # Frame
    IN IF first > Len(output) THEN output
       ELSE SubSeq(output, first + 1, Len(output))

(***************************************************************************)
(* Inputs                                                                  *)
(***************************************************************************)
Commands == {<<"e", "c", "h", "o">>, <<"l", "s", " ", "-", "l">>}

Images == {<<"u", "b", "u", "n", "t", "u", ":", "1", "8", ".", "0", "4">>,
           <<"p", "y", "t", "h", "o", "n", ":", "3">>}

\* a value of cli_args (run_command) or an entry of cli_args (run_commands)
CliArgs == {None, <<>>, <<"a">>, <<"-", "b">>}

RECURSIVE SeqsUpTo(_, _)
SeqsUpTo(S, n) ==
    IF n = 0 THEN {<<>>}
    ELSE LET shorter == SeqsUpTo(S, n - 1)
         IN shorter \cup {Append(s, x) : s \in {t \in shorter : Len(t) = n - 1}, x \in S}

Batches == SeqsUpTo(CliArgs, MaxBatch)

MountA == MountLocal(<<"/", "d", "a", "t", "a">>, <<"/", "m", "n", "t", "/", "a">>)
MountB == MountLocal(<<"/", "o", "u", "t">>, <<"/", "m", "n", "t", "/", "b">>)

MountLists == {<<>>, <<MountA, MountB>>, <<MountB, MountA>>}

NoLocals ==
    [archive_file |-> None, archive |-> None, cmd |-> None, it |-> 0,
     result |-> None, results |-> <<>>, exc |-> None]

\* the Python type of a value run_command handles: a str or None
TypeOf(value) == IF value = None THEN "NoneType" ELSE "str"

NoRet == [kind |-> "none", value |-> None, type |-> "none"]

NoParams ==
    [command |-> None, cli_args |-> None, mounts |-> <<>>, return_output |-> FALSE,
     verbose |-> FALSE, docker_image |-> None]

NoPy ==
    [target_dir |-> None, target_mount_dir |-> None, target_mount |-> MountLocal(None, None),
     mounts |-> <<>>, target_full_path |-> None, command |-> None]

NoDeleg == [callee |-> "none", args |-> NoParams, count |-> 0]

\* the caller invokes run_command or run_commands
Init ==
    /\ entry \in {"run_command", "run_commands"}
    /\ \E command \in Commands, docker_image \in Images, mounts \in MountLists,
          return_output \in BOOLEAN,
          cli_args \in (IF entry = "run_command" THEN CliArgs ELSE Batches) :
          /\ call = [command |-> command, cli_args |-> cli_args, mounts |-> mounts,
                     return_output |-> return_output, verbose |-> FALSE,
                     docker_image |-> docker_image, target |-> None,
                     target_mount_dir |-> None, run_multiple |-> FALSE,
                     has_cli_args |-> TRUE]
          /\ p = [command |-> command, cli_args |-> cli_args, mounts |-> mounts,
                  return_output |-> return_output, verbose |-> FALSE,
                  docker_image |-> docker_image]
    /\ fn = entry
    /\ pc = "enter"
    /\ loc = NoLocals
    /\ ret = NoRet
    /\ pyPc = "off"
    /\ py = NoPy
    /\ deleg = NoDeleg
    /\ pyRet = NoRet
    /\ live = {}
    /\ tmpNext = 1
    /\ busy = FALSE
    /\ builds = <<>>
    /\ dispatches = <<>>
    /\ strips = <<>>
    /\ events = <<>>
    /\ calls = <<>>

(***************************************************************************)
(* run_command                                                             *)
(***************************************************************************)
\* run_command writing its archive to one fixed location
RC_AcquireFixed ==
    /\ fn = "run_command" /\ pc = "enter"
    /\ loc' = [loc EXCEPT !.archive_file = TempPath(1)]
    /\ live' = live \cup {TempPath(1)}
    /\ tmpNext' = tmpNext + 1
    /\ events' = Append(events, "acquire")
    /\ pc' = "build"
    /\ UNCHANGED <<calls, entry, call, pyVars, fn, p, ret, busy, builds, dispatches, strips>>

\* line 42, entering the with statement
RC_Acquire ==
    /\ fn = "run_command" /\ pc = "enter"
    /\ loc' = [loc EXCEPT !.archive_file = TempPath(tmpNext)]
    /\ live' = live \cup {TempPath(tmpNext)}
    /\ tmpNext' = tmpNext + 1
    /\ events' = Append(events, "acquire")
    /\ pc' = "build"
    /\ UNCHANGED <<calls, entry, call, pyVars, fn, p, ret, busy, builds, dispatches, strips>>

\* the arguments of the build_archive call of lines 43-47 and 91-95
BuildArgs(archive_file, params) ==
    [archive_filename |-> archive_file, payload_script |-> params.command,
     verbose |-> FALSE, docker_image |-> params.docker_image, mounts |-> params.mounts]

\* run_command building the archive a second time
RC_BuildTwice ==
    /\ fn = "run_command" /\ pc = "build"
    /\ builds' = builds \o <<BuildArgs(loc.archive_file, p), BuildArgs(loc.archive_file, p)>>
    /\ events' = events \o <<"build", "build">>
    /\ \/ /\ loc' = [loc EXCEPT !.archive = BuildResult(loc.archive_file)]
          /\ pc' = "cmd"
       \/ \E e \in BuildErrors :
              /\ loc' = [loc EXCEPT !.exc = e]
              /\ pc' = "exit"
    /\ UNCHANGED <<calls, entry, call, pyVars, fn, p, ret, live, tmpNext, busy, dispatches, strips>>

\* run_command going on to dispatch after build_archive raised
RC_BuildSwallowed ==
    /\ fn = "run_command" /\ pc = "build"
    /\ builds' = Append(builds, BuildArgs(loc.archive_file, p))
    /\ events' = Append(events, "build")
    /\ \/ loc' = [loc EXCEPT !.archive = BuildResult(loc.archive_file)]
       \/ \E e \in BuildErrors :
              loc' = [loc EXCEPT !.archive = loc.archive_file, !.exc = e]
    /\ pc' = "cmd"
    /\ UNCHANGED <<calls, entry, call, pyVars, fn, p, ret, live, tmpNext, busy, dispatches, strips>>

\* lines 43-47
RC_Build ==
    /\ fn = "run_command" /\ pc = "build"
    /\ builds' = Append(builds, BuildArgs(loc.archive_file, p))
    /\ events' = Append(events, "build")
    /\ \/ /\ loc' = [loc EXCEPT !.archive = BuildResult(loc.archive_file)]
          /\ pc' = "cmd"
       \/ \E e \in BuildErrors :
              /\ loc' = [loc EXCEPT !.exc = e]
              /\ pc' = "exit"
    /\ UNCHANGED <<calls, entry, call, pyVars, fn, p, ret, live, tmpNext, busy, dispatches, strips>>

\* run_command appending the separator whatever cli_args is
RunCommandCmdAlways(archive, cli_args) ==
    archive \o ArgSep \o (IF cli_args = None THEN <<>> ELSE cli_args)

\* lines 48-50
RunCommandCmd(archive, cli_args) ==
    IF Truthy(cli_args) THEN archive \o ArgSep \o cli_args ELSE archive

\* line 51, the call of mode.run_script
RC_Dispatch ==
    /\ fn = "run_command" /\ pc = "cmd"
    /\ LET cmd == RunCommandCmd(loc.archive, p.cli_args)
       IN /\ loc' = [loc EXCEPT !.cmd = cmd]
          /\ dispatches' = Append(dispatches,
                 [cmd |-> cmd, return_output |-> p.return_output, verbose |-> p.verbose,
                  status |-> "running", out |-> None])
    /\ busy' = TRUE
    /\ events' = Append(events, "dispatch")
    /\ pc' = "backend"
    /\ UNCHANGED <<calls, entry, call, pyVars, fn, p, ret, live, tmpNext, builds, strips>>

\* run_command stripping the output before it leaves the with statement
RC_DispatchEndStripInside ==
    /\ fn = "run_command" /\ pc = "backend"
    /\ busy' = FALSE
    /\ \/ \E out \in BackendReturns(p.return_output) :
              /\ loc' = [loc EXCEPT !.result = IF p.return_output THEN StripStdout(out) ELSE out]
              /\ dispatches' = [dispatches EXCEPT ![Len(dispatches)].status = "returned",
                                                  ![Len(dispatches)].out = out]
              /\ strips' = IF p.return_output THEN Append(strips, out) ELSE strips
              /\ events' = events \o (IF p.return_output THEN <<"dispatched", "strip">>
                                       ELSE <<"dispatched">>)
       \/ \E e \in RunErrors :
              /\ loc' = [loc EXCEPT !.exc = e]
              /\ dispatches' = [dispatches EXCEPT ![Len(dispatches)].status = "raised",
                                                  ![Len(dispatches)].out = e]
              /\ events' = Append(events, "dispatched")
              /\ UNCHANGED strips
    /\ pc' = "exit"
    /\ UNCHANGED <<calls, entry, call, pyVars, fn, p, ret, live, tmpNext, builds>>

\* line 51, mode.run_script returns or raises
RC_DispatchEnd ==
    /\ fn = "run_command" /\ pc = "backend"
    /\ busy' = FALSE
    /\ events' = Append(events, "dispatched")
    /\ \/ \E out \in BackendReturns(p.return_output) :
              /\ loc' = [loc EXCEPT !.result = out]
              /\ dispatches' = [dispatches EXCEPT ![Len(dispatches)].status = "returned",
                                                  ![Len(dispatches)].out = out]
       \/ \E e \in RunErrors :
              /\ loc' = [loc EXCEPT !.exc = e]
              /\ dispatches' = [dispatches EXCEPT ![Len(dispatches)].status = "raised",
                                                  ![Len(dispatches)].out = e]
    /\ pc' = "exit"
    /\ UNCHANGED <<calls, entry, call, pyVars, fn, p, ret, live, tmpNext, builds, strips>>

\* the locations that exist once temp_archive_file's scope has been left
Released(files, archive_file) == files \ {archive_file}

\* a release that only follows the body when the body did not raise
ExitReleasesOnSuccess(exc) == exc = None

\* lines 42 and 90: a with statement leaves its context manager on a normal end
\* of the body and on a failure alike
ExitReleases(exc) == TRUE

\* line 42, leaving the with statement: the location is released and a pending
\* failure goes on to the caller
RC_Exit ==
    /\ fn = "run_command" /\ pc = "exit"
    /\ IF ExitReleases(loc.exc)
       THEN /\ live' = Released(live, loc.archive_file)
            /\ events' = Append(events, "release")
       ELSE UNCHANGED <<live, events>>
    /\ IF loc.exc # None
       THEN /\ ret' = [kind |-> "raise", value |-> loc.exc, type |-> "exception"]
            /\ pc' = "done"
       ELSE /\ pc' = "after"
            /\ UNCHANGED ret
    /\ UNCHANGED <<calls, entry, call, pyVars, fn, p, loc, tmpNext, busy, builds, dispatches, strips>>

\* run_command returning the captured output as the backend gave it
RC_ReturnRaw ==
    /\ fn = "run_command" /\ pc = "after"
    /\ ret' = [kind |-> "return", value |-> loc.result, type |-> TypeOf(loc.result)]
    /\ pc' = "done"
    /\ UNCHANGED <<calls, entry, call, pyVars, fn, p, loc, live, tmpNext, busy, histVars>>

\* lines 52-55
RC_Return ==
    /\ fn = "run_command" /\ pc = "after"
    /\ IF p.return_output
       THEN /\ ret' = [kind |-> "return", value |-> StripStdout(loc.result),
                         type |-> TypeOf(StripStdout(loc.result))]
            /\ loc' = [loc EXCEPT !.result = StripStdout(loc.result)]
            /\ strips' = Append(strips, loc.result)
            /\ events' = Append(events, "strip")
       ELSE /\ ret' = [kind |-> "return", value |-> loc.result, type |-> TypeOf(loc.result)]
            /\ UNCHANGED <<loc, strips, events>>
    /\ pc' = "done"
    /\ UNCHANGED <<calls, entry, call, pyVars, fn, p, live, tmpNext, busy, builds, dispatches>>

(***************************************************************************)
(* run_commands                                                            *)
(***************************************************************************)
\* line 89 and line 90, entering the with statement
RCS_Acquire ==
    /\ fn = "run_commands" /\ pc = "enter"
    /\ loc' = [loc EXCEPT !.archive_file = TempPath(tmpNext), !.results = <<>>]
    /\ live' = live \cup {TempPath(tmpNext)}
    /\ tmpNext' = tmpNext + 1
    /\ events' = Append(events, "acquire")
    /\ pc' = "build"
    /\ UNCHANGED <<calls, entry, call, pyVars, fn, p, ret, busy, builds, dispatches, strips>>

\* lines 91-96
RCS_Build ==
    /\ fn = "run_commands" /\ pc = "build"
    /\ builds' = Append(builds, BuildArgs(loc.archive_file, p))
    /\ events' = Append(events, "build")
    /\ \/ /\ loc' = [loc EXCEPT !.archive = BuildResult(loc.archive_file),
                                !.cmd = BuildResult(loc.archive_file),
                                !.it = 1]
          /\ pc' = "loop"
       \/ \E e \in BuildErrors :
              /\ loc' = [loc EXCEPT !.exc = e]
              /\ pc' = "exit"
    /\ UNCHANGED <<calls, entry, call, pyVars, fn, p, ret, live, tmpNext, busy, dispatches, strips>>

\* run_commands appending the separator whatever the entry is
RunCommandsCmdAlways(archive, cmd, cli_arg) ==
    archive \o ArgSep \o (IF cli_arg = None THEN <<>> ELSE cli_arg)

\* an entry without an argument running the bare archive
RunCommandsCmdBare(archive, cmd, cli_arg) ==
    IF Truthy(cli_arg) THEN archive \o ArgSep \o cli_arg ELSE archive

\* lines 98-99: the command line for one entry, cmd being the one formed last
RunCommandsCmd(archive, cmd, cli_arg) ==
    IF Truthy(cli_arg) THEN archive \o ArgSep \o cli_arg ELSE cmd

\* cli_args walked from its end
NextEntryReversed(cli_args, it) == cli_args[Len(cli_args) + 1 - it]

\* line 97: the entry the it-th iteration of the for loop binds to cli_arg
NextEntry(cli_args, it) == cli_args[it]

\* lines 97-100, the next entry of cli_args and the call of mode.run_script
RCS_Dispatch ==
    /\ fn = "run_commands" /\ pc = "loop"
    /\ loc.it <= Len(p.cli_args)
    /\ LET cmd == RunCommandsCmd(loc.archive, loc.cmd, NextEntry(p.cli_args, loc.it))
       IN /\ loc' = [loc EXCEPT !.cmd = cmd]
          /\ dispatches' = Append(dispatches,
                 [cmd |-> cmd, return_output |-> p.return_output, verbose |-> p.verbose,
                  status |-> "running", out |-> None])
    /\ busy' = TRUE
    /\ events' = Append(events, "dispatch")
    /\ pc' = "backend"
    /\ UNCHANGED <<calls, entry, call, pyVars, fn, p, ret, live, tmpNext, builds, strips>>

\* a failure of mode.run_script caught inside the loop
AfterRunScriptRaisedGoOn == "loop"

\* line 100: nothing in the loop catches, so a failure of mode.run_script leaves
\* the loop and the with statement
AfterRunScriptRaised == "exit"

\* results.insert(0, ...)
CollectFront(results, out) == <<out>> \o results

\* line 100: results.append(...)
Collect(results, out) == Append(results, out)

\* line 100, mode.run_script returns and its value is appended, or it raises
RCS_DispatchEnd ==
    /\ fn = "run_commands" /\ pc = "backend"
    /\ busy' = FALSE
    /\ events' = Append(events, "dispatched")
    /\ \/ \E out \in BackendReturns(p.return_output) :
              /\ loc' = [loc EXCEPT !.results = Collect(loc.results, out),
                                    !.it = loc.it + 1]
              /\ dispatches' = [dispatches EXCEPT ![Len(dispatches)].status = "returned",
                                                  ![Len(dispatches)].out = out]
              /\ pc' = "loop"
       \/ \E e \in RunErrors :
              /\ loc' = [loc EXCEPT !.exc = e]
              /\ dispatches' = [dispatches EXCEPT ![Len(dispatches)].status = "raised",
                                                  ![Len(dispatches)].out = e]
              /\ pc' = AfterRunScriptRaised
    /\ UNCHANGED <<calls, entry, call, pyVars, fn, p, ret, live, tmpNext, builds, strips>>

\* line 97, cli_args is exhausted
RCS_LoopEnd ==
    /\ fn = "run_commands" /\ pc = "loop"
    /\ loc.it > Len(p.cli_args)
    /\ pc' = "exit"
    /\ UNCHANGED <<calls, entry, call, pyVars, fn, p, loc, ret, live, tmpNext, busy, histVars>>

\* line 90, leaving the with statement: the location is released and a pending
\* failure goes on to the caller
RCS_Exit ==
    /\ fn = "run_commands" /\ pc = "exit"
    /\ IF ExitReleases(loc.exc)
       THEN /\ live' = Released(live, loc.archive_file)
            /\ events' = Append(events, "release")
       ELSE UNCHANGED <<live, events>>
    /\ IF loc.exc # None
       THEN /\ ret' = [kind |-> "raise", value |-> loc.exc, type |-> "exception"]
            /\ pc' = "done"
       ELSE /\ pc' = "after"
            /\ UNCHANGED ret
    /\ UNCHANGED <<calls, entry, call, pyVars, fn, p, loc, tmpNext, busy, builds, dispatches, strips>>

\* line 102
StripAll(results) == [k \in 1..Len(results) |-> StripStdout(results[k])]

RECURSIVE Repeat(_, _)
Repeat(x, n) == IF n = 0 THEN <<>> ELSE Append(Repeat(x, n - 1), x)

\* lines 101-103
RCS_Return ==
    /\ fn = "run_commands" /\ pc = "after"
    /\ IF p.return_output
       THEN /\ ret' = [kind |-> "return", value |-> StripAll(loc.results), type |-> "list"]
            /\ loc' = [loc EXCEPT !.results = StripAll(loc.results)]
            /\ strips' = strips \o loc.results
            /\ events' = events \o Repeat("strip", Len(loc.results))
       ELSE /\ ret' = [kind |-> "return", value |-> loc.results, type |-> "list"]
            /\ UNCHANGED <<loc, strips, events>>
    /\ pc' = "done"
    /\ UNCHANGED <<calls, entry, call, pyVars, fn, p, live, tmpNext, busy, builds, dispatches>>

(***************************************************************************)
(* run_python                                                              *)
(***************************************************************************)
\* the default of target_mount_dir, line 108
DefaultMountDir == <<"t", "a", "r", "g", "e", "t">>

TargetMountDirs == {DefaultMountDir, <<"m", "/", "t">>}

\* directories a script can live in: a prefix followed by the last component
DirPrefixes == {<<>>, <<"/">>, <<"/", "h", "o", "m", "e", "/", "u", "s", "e", "r", "/">>}
DirNames == {<<"p", "r", "o", "j">>, <<"s", ".", "d">>}
ScriptDirs == {pre \o name : pre \in DirPrefixes, name \in DirNames}
ScriptFiles == {<<"h", "e", "l", "l", "o", ".", "p", "y">>}

\* scripts inside a named directory, and scripts given without one or in the root
Targets ==
    {d \o <<Slash>> \o f : d \in ScriptDirs, f \in ScriptFiles}
        \cup ScriptFiles \cup {<<Slash>> \o f : f \in ScriptFiles}

\* the cli_args defaults of lines 20 and 60
DefaultCliArgs(callee) == IF callee = "run_commands" THEN <<None>> ELSE None

\* the caller invokes run_python; return_output and, when has_cli_args, cli_args
\* travel in **kwargs
InitPy ==
    /\ entry = "run_python"
    /\ \E target \in Targets, target_mount_dir \in TargetMountDirs, mounts \in MountLists,
          docker_image \in Images, run_multiple \in BOOLEAN, return_output \in BOOLEAN,
          has_cli_args \in BOOLEAN :
          \E cli_args \in (IF ~has_cli_args THEN {None}
                           ELSE IF run_multiple THEN SeqsUpTo(CliArgs, MaxPyBatch)
                           ELSE CliArgs) :
              call = [command |-> None, cli_args |-> cli_args, mounts |-> mounts,
                      return_output |-> return_output, verbose |-> FALSE,
                      docker_image |-> docker_image, target |-> target,
                      target_mount_dir |-> target_mount_dir, run_multiple |-> run_multiple,
                      has_cli_args |-> has_cli_args]
    /\ fn = "none"
    /\ pc = "off"
    /\ p = NoParams
    /\ loc = NoLocals
    /\ ret = NoRet
    /\ pyPc = "enter"
    /\ py = NoPy
    /\ deleg = NoDeleg
    /\ pyRet = NoRet
    /\ live = {}
    /\ tmpNext = 1
    /\ busy = FALSE
    /\ builds = <<>>
    /\ dispatches = <<>>
    /\ strips = <<>>
    /\ events = <<>>
    /\ calls = <<>>

\* the script's mount put in front of the caller's
TargetMountFirst(mounts, target_mount) == <<target_mount>> \o mounts

\* line 136
WithTargetMount(mounts, target_mount) == mounts \o <<target_mount>>

\* run_python appending the script's mount to the caller's own list
PY_DeriveInPlace ==
    /\ entry = "run_python" /\ pyPc = "enter"
    /\ LET target_dir == Dirname(call.target)
           target_mount_dir == PathJoin(call.target_mount_dir, Basename(target_dir))
           target_mount == MountLocal(target_dir, target_mount_dir)
           target_full_path == PathJoin(target_mount.mount_point, Basename(call.target))
       IN /\ call' = [call EXCEPT !.mounts = Append(call.mounts, target_mount)]
          /\ py' = [target_dir |-> target_dir,
                    target_mount_dir |-> target_mount_dir,
                    target_mount |-> target_mount,
                    mounts |-> Append(call.mounts, target_mount),
                    target_full_path |-> target_full_path,
                    command |-> make_python_command(target_full_path, PythonCmd)]
    /\ pyPc' = "delegate"
    /\ UNCHANGED <<calls, entry, deleg, pyRet, frameVars, live, tmpNext, busy, histVars>>

\* lines 133-140
PY_Derive ==
    /\ entry = "run_python" /\ pyPc = "enter"
    /\ LET target_dir == Dirname(call.target)
           target_mount_dir == PathJoin(call.target_mount_dir, Basename(target_dir))
           target_mount == MountLocal(target_dir, target_mount_dir)
           target_full_path == PathJoin(target_mount.mount_point, Basename(call.target))
       IN py' = [target_dir |-> target_dir,
                 target_mount_dir |-> target_mount_dir,
                 target_mount |-> target_mount,
                 mounts |-> WithTargetMount(call.mounts, target_mount),
                 target_full_path |-> target_full_path,
                 command |-> make_python_command(target_full_path, PythonCmd)]
    /\ pyPc' = "delegate"
    /\ UNCHANGED <<calls, entry, call, deleg, pyRet, frameVars, live, tmpNext, busy, histVars>>

\* lines 141-144: the function run_python hands over to
Delegate(run_multiple) == IF run_multiple THEN "run_commands" ELSE "run_command"

\* lines 142 and 144, the call
PY_Delegate ==
    /\ entry = "run_python" /\ pyPc = "delegate"
    /\ LET callee == Delegate(call.run_multiple)
           args == [command |-> py.command,
                    cli_args |-> IF call.has_cli_args THEN call.cli_args
                                 ELSE DefaultCliArgs(callee),
                    mounts |-> py.mounts,
                    return_output |-> call.return_output,
                    verbose |-> call.verbose,
                    docker_image |-> call.docker_image]
       IN /\ fn' = callee
          /\ p' = args
          /\ deleg' = [callee |-> callee, args |-> args, count |-> deleg.count + 1]
    /\ pc' = "enter"
    /\ loc' = NoLocals
    /\ ret' = NoRet
    /\ pyPc' = "wait"
    /\ UNCHANGED <<calls, entry, call, py, pyRet, live, tmpNext, busy, histVars>>

\* lines 142 and 144, return: the callee's value or failure is run_python's
PY_Return ==
    /\ entry = "run_python" /\ pyPc = "wait"
    /\ pc = "done"
    /\ pyRet' = ret
    /\ pyPc' = "done"
    /\ UNCHANGED <<calls, entry, call, py, deleg, frameVars, live, tmpNext, busy, histVars>>

Next ==
    \/ RC_Acquire
    \/ RC_Build
    \/ RC_Dispatch
    \/ RC_DispatchEnd
    \/ RC_Exit
    \/ RC_Return
    \/ RCS_Acquire
    \/ RCS_Build
    \/ RCS_Dispatch
    \/ RCS_DispatchEnd
    \/ RCS_LoopEnd
    \/ RCS_Exit
    \/ RCS_Return

Spec == Init /\ [][Next]_vars

NextPy ==
    \/ PY_Derive
    \/ PY_Delegate
    \/ PY_Return
    \/ Next

SpecPy == InitPy /\ [][NextPy]_vars

(***************************************************************************)
(* A caller making several run_command calls, one after the other          *)
(***************************************************************************)
\* the defaults of mounts and docker_image, lines 22 and 25
DefaultMounts == <<>>
DefaultImage == <<"u", "b", "u", "n", "t", "u", ":", "1", "8", ".", "0", "4">>

\* the arguments of one run_command call of the sequence
SeqCalls ==
    {[command |-> command, cli_args |-> cli_args, mounts |-> DefaultMounts,
      return_output |-> return_output, verbose |-> FALSE, docker_image |-> DefaultImage]
        : command \in Commands, cli_args \in {None, <<"a">>}, return_output \in BOOLEAN}

\* the caller's argument objects for a direct run_command call
DirectCall(args) ==
    [command |-> args.command, cli_args |-> args.cli_args, mounts |-> args.mounts,
     return_output |-> args.return_output, verbose |-> args.verbose,
     docker_image |-> args.docker_image, target |-> None,
     target_mount_dir |-> None, run_multiple |-> FALSE, has_cli_args |-> TRUE]

\* the caller's first run_command call
InitSeq ==
    /\ entry = "run_command"
    /\ \E args \in SeqCalls :
          /\ call = DirectCall(args)
          /\ p = args
    /\ fn = "run_command"
    /\ pc = "enter"
    /\ loc = NoLocals
    /\ ret = NoRet
    /\ pyPc = "off"
    /\ py = NoPy
    /\ deleg = NoDeleg
    /\ pyRet = NoRet
    /\ live = {}
    /\ tmpNext = 1
    /\ busy = FALSE
    /\ builds = <<>>
    /\ dispatches = <<>>
    /\ strips = <<>>
    /\ events = <<>>
    /\ calls = <<>>

\* a call has ended, by a return or a failure, and the caller calls run_command again
RC_NewCall ==
    /\ entry = "run_command" /\ fn = "run_command" /\ pc = "done"
    /\ Len(calls) + 1 < MaxCalls
    /\ calls' = Append(calls, [archive_file |-> loc.archive_file, kind |-> ret.kind])
    /\ \E args \in SeqCalls :
          /\ call' = DirectCall(args)
          /\ p' = args
    /\ pc' = "enter"
    /\ loc' = NoLocals
    /\ ret' = NoRet
    /\ UNCHANGED <<entry, pyVars, fn, live, tmpNext, busy, histVars>>

NextSeq ==
    \/ RC_Acquire
    \/ RC_Build
    \/ RC_Dispatch
    \/ RC_DispatchEnd
    \/ RC_Exit
    \/ RC_Return
    \/ RC_NewCall

SpecSeq == InitSeq /\ [][NextSeq]_vars

\* a caller of any of the three functions
InitAll == Init \/ InitPy

SpecAll == InitAll /\ [][NextPy]_vars

(***************************************************************************)
(* Properties                                                              *)
(***************************************************************************)
Succeeded == pc = "done" /\ ret.kind = "return"
Failed == pc = "done" /\ ret.kind = "raise"

IsSuffix(suffix, s) ==
    /\ Len(suffix) <= Len(s)
    /\ SubSeq(s, Len(s) - Len(suffix) + 1, Len(s)) = suffix

\* C1: a call of run_command never builds or dispatches more than once, and a
\* call in which no collaborator failed has built exactly one archive and
\* dispatched exactly once to mode.run_script.
C1_OneBuildOneDispatch ==
    fn = "run_command" =>
        /\ Len(builds) <= 1
        /\ Len(dispatches) <= 1
        /\ Succeeded =>
               /\ Len(builds) = 1
               /\ Len(dispatches) = 1
               /\ dispatches[1].status = "returned"

C1_Witness ==
    /\ entry = "run_command" /\ fn = "run_command" /\ Succeeded
    /\ Len(builds) = 1 /\ Len(dispatches) = 1

\* C2: a call of run_commands with N >= 1 entries never builds more than once;
\* its k-th dispatch carries the k-th entry's argument when that entry has one;
\* a dispatch has completed before the next one starts; and a call in which no
\* collaborator failed has built once and dispatched exactly N times.
C2_OneBuildNDispatchesInOrder ==
    (fn = "run_commands" /\ Len(p.cli_args) >= 1) =>
        /\ Len(builds) <= 1
        /\ Len(dispatches) <= Len(p.cli_args)
        /\ \A k \in 1..Len(dispatches) :
               /\ k < Len(dispatches) => dispatches[k].status # "running"
               /\ Truthy(p.cli_args[k]) =>
                      IsSuffix(ArgSep \o p.cli_args[k], dispatches[k].cmd)
        /\ busy <=> (dispatches # <<>> /\ dispatches[Len(dispatches)].status = "running")
        /\ Succeeded =>
               /\ Len(builds) = 1
               /\ Len(dispatches) = Len(p.cli_args)
               /\ \A k \in 1..Len(dispatches) : dispatches[k].status = "returned"

C2_Witness ==
    /\ entry = "run_commands" /\ fn = "run_commands" /\ Succeeded
    /\ p.cli_args = <<<<"a">>, <<"-", "b">>, <<"a">>>>
    /\ Len(builds) = 1 /\ Len(dispatches) = 3

\* C3: when a call of run_command or run_commands has ended, by a return, by a
\* failure of build_archive or by a failure of mode.run_script, the temporary
\* location it acquired no longer exists.
C3_TempReleasedOnEveryExit ==
    (fn \in {"run_command", "run_commands"} /\ pc = "done") =>
        /\ loc.archive_file # None
        /\ loc.archive_file \notin live

C3_Witness ==
    /\ fn = "run_commands" /\ Failed
    /\ ret.value \in RunErrors
    /\ Len(dispatches) = 2
    /\ loc.archive_file = TempPath(1) /\ TempPath(1) \notin live

\* C4: in run_commands, once the dispatch for entry k has raised, control is
\* leaving the function: entry k's dispatch is the last one, nothing is
\* stripped, no value is returned, and the caller gets the very failure
\* mode.run_script raised.
C4_DispatchFailurePropagates ==
    fn = "run_commands" =>
        \A k \in 1..Len(dispatches) :
            dispatches[k].status = "raised" =>
                /\ k = Len(dispatches)
                /\ pc \in {"exit", "done"}
                /\ strips = <<>>
                /\ ret.kind # "return"
                /\ pc = "done" => ret.kind = "raise" /\ ret.value = dispatches[k].out

C4_Witness ==
    /\ fn = "run_commands" /\ Failed
    /\ Len(p.cli_args) = 3 /\ Len(dispatches) = 2
    /\ dispatches[2].status = "raised"
    /\ p.return_output

\* the greatest element of a non-empty set of integers
MaxOf(S) == CHOOSE m \in S : \A n \in S : n <= m

\* the command line C5 states for the k-th entry of a batch
StatedCmd(archive, batch, k) ==
    LET earlier == {j \in 1..k : batch[j] # None /\ batch[j] # <<>>}
    IN IF earlier = {} THEN archive
       ELSE archive \o <<" ", "-", "-", " ">> \o batch[MaxOf(earlier)]

\* C5: in run_commands the k-th dispatched command line is the archive path
\* followed by " -- " and the nearest non-empty entry at or before k, or the
\* bare archive path when there is no such entry.
C5_EmptyEntryReusesLastCmd ==
    fn = "run_commands" =>
        \A k \in 1..Len(dispatches) :
            dispatches[k].cmd = StatedCmd(builds[1].archive_filename, p.cli_args, k)

C5_Witness ==
    /\ fn = "run_commands" /\ Succeeded
    /\ p.cli_args = <<<<"a">>, <<"-", "b">>, None>>
    /\ dispatches[3].cmd = loc.archive \o <<" ", "-", "-", " ", "-", "b">>

\* C6: the one command line run_command dispatches is the path build_archive
\* returned when cli_args is None or empty, and that path followed by " -- "
\* and cli_args otherwise.
C6_SingleCmdLine ==
    (fn = "run_command" /\ dispatches # <<>>) =>
        dispatches[1].cmd =
            IF p.cli_args = None \/ p.cli_args = <<>> THEN loc.archive
            ELSE loc.archive \o <<" ", "-", "-", " ">> \o p.cli_args

C6_Witness ==
    /\ fn = "run_command" /\ Succeeded
    /\ p.cli_args = <<"-", "b">>
    /\ dispatches[1].cmd = TempPath(1) \o <<" ", "-", "-", " ", "-", "b">>

\* C7: run_command with return_output returns what mode.run_script returned
\* after one application of _strip_stdout; without return_output it returns
\* None and _strip_stdout is never applied.
C7_ResultIffCapture ==
    (fn = "run_command" /\ Succeeded) =>
        IF p.return_output
        THEN /\ strips = <<dispatches[1].out>>
             /\ ret.value = StripStdout(dispatches[1].out)
             /\ ret.value # None
        ELSE /\ strips = <<>>
             /\ ret.value = None

C7_Witness ==
    /\ fn = "run_command" /\ Succeeded /\ p.return_output
    /\ dispatches[1].out = <<Frame, Frame, "y", "o">>
    /\ ret.value = <<Frame, "y", "o">>

HelloTarget ==
    <<"/", "h", "o", "m", "e", "/", "u", "s", "e", "r", "/", "p", "r", "o", "j", "/",
      "h", "e", "l", "l", "o", ".", "p", "y">>
HelloMount ==
    [local_dir |-> <<"/", "h", "o", "m", "e", "/", "u", "s", "e", "r", "/", "p", "r", "o", "j">>,
     mount_point |-> <<"t", "a", "r", "g", "e", "t", "/", "p", "r", "o", "j">>]
HelloCommand ==
    <<"p", "y", "t", "h", "o", "n", " ", "t", "a", "r", "g", "e", "t", "/", "p", "r", "o", "j",
      "/", "h", "e", "l", "l", "o", ".", "p", "y">>

\* C9: for a script D/F, B the last component of D, run_python derives one mount
\* of D at target_mount_dir/B and the command "python target_mount_dir/B/F";
\* /home/user/proj/hello.py under "target" gives /home/user/proj -> target/proj
\* and "python target/proj/hello.py".
C9_ScriptMountAndCommand ==
    (entry = "run_python" /\ pyPc # "enter") =>
        /\ \A pre \in DirPrefixes, B \in DirNames, F \in ScriptFiles :
               call.target = pre \o B \o <<"/">> \o F =>
                   /\ py.target_mount =
                          [local_dir |-> pre \o B,
                           mount_point |-> call.target_mount_dir \o <<"/">> \o B]
                   /\ py.command =
                          <<"p", "y", "t", "h", "o", "n", " ">>
                              \o call.target_mount_dir \o <<"/">> \o B \o <<"/">> \o F
                   /\ Len(py.mounts) = Len(call.mounts) + 1
        /\ (call.target = HelloTarget /\ call.target_mount_dir = DefaultMountDir) =>
               /\ py.target_mount = HelloMount
               /\ py.command = HelloCommand

C9_Witness ==
    /\ entry = "run_python" /\ pyPc = "done"
    /\ call.target = HelloTarget /\ call.target_mount_dir = DefaultMountDir
    /\ py.target_mount = HelloMount
    /\ builds[1].payload_script = HelloCommand

\* C10: run_python hands over exactly once, to run_commands when run_multiple
\* and to run_command otherwise, with the derived command, the image and the
\* caller's mounts followed by the script's mount; what it gives back, value or
\* failure, is what that function gave back.
C10_DelegatesOnce ==
    entry = "run_python" =>
        /\ pyPc \in {"enter", "delegate"} => deleg.count = 0 /\ fn = "none"
        /\ pyPc \in {"wait", "done"} =>
               /\ deleg.count = 1
               /\ deleg.callee = (IF call.run_multiple THEN "run_commands" ELSE "run_command")
               /\ fn = deleg.callee
               /\ p = deleg.args
               /\ p.command = py.command
               /\ p.docker_image = call.docker_image
               /\ Len(p.mounts) = Len(call.mounts) + 1
               /\ SubSeq(p.mounts, 1, Len(call.mounts)) = call.mounts
               /\ p.mounts[Len(p.mounts)] = py.target_mount
               /\ Len(builds) <= 1
        /\ pyPc = "done" =>
               /\ pc = "done"
               /\ pyRet.kind \in {"return", "raise"}
               /\ pyRet = ret

C10_Witness ==
    /\ entry = "run_python" /\ pyPc = "done"
    /\ call.run_multiple /\ call.mounts = <<MountB, MountA>>
    /\ deleg.callee = "run_commands"
    /\ builds[1].mounts = <<MountB, MountA, py.target_mount>>
    /\ pyRet.kind = "return"

\* C11: run_commands, and so run_python with run_multiple left at its default,
\* returns one string when return_output and None otherwise.
C11_ReturnsStringOrNone ==
    (fn = "run_commands" /\ Len(p.cli_args) >= 1 /\ Succeeded) =>
        ret.type = (IF p.return_output THEN "str" ELSE "NoneType")

\* C13: once build_archive has raised in run_command or run_commands, nothing is
\* dispatched, no value is returned, and the caller gets the very failure
\* build_archive raised.
C13_BuildFailurePropagates ==
    (fn \in {"run_command", "run_commands"} /\ loc.exc \in BuildErrors) =>
        /\ dispatches = <<>>
        /\ strips = <<>>
        /\ pc \in {"exit", "done"}
        /\ ret.kind # "return"
        /\ pc = "done" => ret.kind = "raise" /\ ret.value = loc.exc

C13_Witness ==
    /\ fn = "run_commands" /\ Failed
    /\ Len(p.cli_args) = 2
    /\ ret.value \in BuildErrors
    /\ Len(builds) = 1 /\ dispatches = <<>>

\* the position of an event in the order C15 states
Rank(ev) ==
    CASE ev = "acquire" -> 1
      [] ev = "build" -> 2
      [] ev \in {"dispatch", "dispatched"} -> 3
      [] ev = "release" -> 4
      [] ev = "strip" -> 5

Count(ev) == Cardinality({k \in 1..Len(events) : events[k] = ev})

\* C15: in run_command and run_commands the location is acquired, then the
\* archive is built, then come all dispatches, then the release, then every
\* strip, then the return: no dispatch precedes the build or follows the
\* release, and nothing is stripped before the release.
C15_EventOrder ==
    fn \in {"run_command", "run_commands"} =>
        /\ \A i, j \in 1..Len(events) : i < j => Rank(events[i]) <= Rank(events[j])
        /\ Count("acquire") <= 1 /\ Count("build") <= 1 /\ Count("release") <= 1
        /\ (events # <<>>) => events[1] = "acquire"
        /\ Count("dispatch") > 0 => Count("build") = 1
        /\ busy => Count("release") = 0
        /\ Count("strip") > 0 => Count("release") = 1
        /\ ret.kind # "none" => (Count("release") = 1 /\ pc = "done")
        /\ Succeeded => Count("strip") = Len(strips)

C15_Witness ==
    /\ fn = "run_commands" /\ Succeeded
    /\ events = <<"acquire", "build", "dispatch", "dispatched", "dispatch", "dispatched",
                  "release", "strip", "strip">>

C12_EachCallOwnArtifact ==
    /\ Len(builds) \in {Len(calls), Len(calls) + 1}
    /\ pc = "done" => (Len(builds) = Len(calls) + 1 /\ live = {})
    /\ \A k \in 1..Len(calls) :
           /\ calls[k].archive_file = builds[k].archive_filename
           /\ calls[k].archive_file \notin live
    /\ \A i, j \in 1..Len(builds) :
           i # j => builds[i].archive_filename # builds[j].archive_filename

C12_Witness ==
    /\ pc = "done" /\ Len(calls) = 1 /\ Len(builds) = 2
    /\ calls[1].kind = "raise" /\ ret.kind = "return"
    /\ builds[1].payload_script = builds[2].payload_script
    /\ builds[1].archive_filename = TempPath(1) /\ builds[2].archive_filename = TempPath(2)
    /\ live = {}

\* C14: no step of run_command, run_commands or run_python changes an object
\* the caller passed: command, image, cli_args and mounts stay as they were;
\* run_python builds its longer mount list apart from the caller's.
C14_ArgumentsUnchanged == [][call' = call]_vars

C14_Witness ==
    /\ entry = "run_python" /\ pyPc = "done"
    /\ call.mounts = <<MountA, MountB>>
    /\ py.mounts = <<MountA, MountB, py.target_mount>>
    /\ p.mounts = py.mounts
====
